---- MODULE Spec2Model ----
(***************************************************************************)
(* Model of the silver-signal monitoring system: the append-only           *)
(* observation store written by the fetch / compute / edit routes, the     *)
(* display-state resolver of the dashboard, and the two posture            *)
(* synthesizers (dashboard banner and daily briefing).                     *)
(*                                                                         *)
(* Time is counted in whole hours.  update_frequency strings are kept as   *)
(* their word tokens, so that String.includes is a case-sensitive search.  *)
(***************************************************************************)
EXTENDS Integers, Sequences, FiniteSets, TLC

VARIABLES store, now, metal, snapshots, cards, banner, briefing, pass,
          args, result, again, requests

vars == <<store, now, metal, snapshots, cards, banner, briefing, pass,
          args, result, again, requests>>

\* the variables of the function evaluations
evalVars == <<args, result, again>>

(***************************************************************************)
(* Bounds of the model                                                     *)
(***************************************************************************)
MaxHours == 340     \* the clock of the display-state inputs runs 0..MaxHours
OldAge == 400       \* age in hours of an "old" row in the posture inputs
MaxOld == 2         \* old rows among the ten non-override indicators
MaxErr == 1         \* error rows among the ten non-override indicators
MaxRows == 2        \* a request starts only while the store holds fewer rows
MaxDay == 1         \* last day of the store clock

(***************************************************************************)
(* Types (src/types/database.ts, types/indicator.ts)                       *)
(***************************************************************************)
NumIndicators == 12
IndicatorIds == 1..NumIndicators
OPEN_INTEREST == 1
VAULT_INVENTORY == 2
DELIVERY_ACTIVITY == 3
COT_SPECULATOR == 4
COT_COMMERCIAL == 5
MARGIN_REQUIREMENTS == 6
BACKWARDATION == 7
ROLL_PATTERNS == 8
LEASE_RATES == 9
SHANGHAI_PREMIUM == 10
FND_RATIO == 11
CVOL == 12

SignalType == {"green", "yellow", "red", "error"}
ScoreSignals == {"green", "yellow", "red"}
FetchStatus == {"success", "error", "timeout", "parse_error"}
IndicatorDisplayState == {"success", "error", "awaiting", "stale", "not_applicable"}
PostureType == {"BUY", "SELL", "CAUTION", "NEUTRAL", "INSUFFICIENT_DATA"}
Metals == {"silver", "gold"}

\* the absent snapshot / absent value (null)
Null == [null |-> TRUE]

(***************************************************************************)
(* Indicator metadata: update_frequency of each indicator, as word tokens  *)
(***************************************************************************)
INDICATOR_METADATA ==
  << <<"Daily", ",", "after", "6", "PM", "ET">>,
     <<"Daily", ",", "after", "5:30", "PM", "ET">>,
     <<"Daily", "during", "delivery", "months", "(", "Mar", ",", "May", ",", "Jul", ",", "Sep", ",", "Dec", ")">>,
     <<"Weekly", ",", "Fridays", "at", "3:30", "PM", "ET", "(", "3-day", "lag", ")">>,
     <<"Weekly", ",", "Fridays", "at", "3:30", "PM", "ET">>,
     <<"Event-driven", ",", "checked", "daily">>,
     <<"Daily", "after", "settlement">>,
     <<"Daily", ",", "most", "informative", "30", "days", "before", "FND">>,
     <<"Daily", "via", "proxy", "from", "backwardation">>,
     <<"Daily", ",", "during", "Asian", "hours">>,
     <<"Daily", ",", "derived", "from", "OI", "and", "vault", "stocks">>,
     <<"Daily", ",", "using", "price", "range", "proxy">> >>

GOLD_INDICATOR_METADATA ==
  << <<"Daily", ",", "after", "6", "PM", "ET">>,
     <<"Daily", ",", "after", "5:30", "PM", "ET">>,
     <<"Daily", "during", "delivery", "months", "(", "Feb", ",", "Apr", ",", "Jun", ",", "Aug", ",", "Oct", ",", "Dec", ")">>,
     <<"Weekly", ",", "Fridays", "at", "3:30", "PM", "ET", "(", "3-day", "lag", ")">>,
     <<"Weekly", ",", "Fridays", "at", "3:30", "PM", "ET">>,
     <<"Event-driven", ",", "checked", "daily">>,
     <<"Daily", "after", "settlement">>,
     <<"Daily", ",", "most", "informative", "30", "days", "before", "FND">>,
     <<"Daily", "via", "proxy", "from", "backwardation">>,
     <<"Daily", ",", "during", "Asian", "hours">>,
     <<"Daily", ",", "derived", "from", "OI", "and", "vault", "stocks">>,
     <<"Daily", "from", "CBOE", "GVZ", "via", "FRED">> >>

\* page.tsx getMetadataForMetal
getMetadataForMetal(m) ==
  IF m = "gold" THEN GOLD_INDICATOR_METADATA ELSE INDICATOR_METADATA

\* String.prototype.includes on the tokens of a string (case-sensitive)
includes(str, needle) == \E i \in 1..Len(str) : str[i] = needle

(***************************************************************************)
(* Display-state resolver (lib/utils/indicatorTransform)                   *)
(***************************************************************************)
WeeklyStaleHours == 336
DailyStaleHours == 48

\* variant: the freshness check runs before the fetch_status check
getDisplayState_staleFirst(snapshot, update_frequency, clock) ==
  IF snapshot = Null THEN "awaiting"
  ELSE LET hoursSinceFetch == clock - snapshot.fetched_at IN
       IF includes(update_frequency, "Weekly") /\ hoursSinceFetch > WeeklyStaleHours
         THEN "stale"
       ELSE IF includes(update_frequency, "Daily") /\ hoursSinceFetch > DailyStaleHours
         THEN "stale"
       ELSE IF snapshot.fetch_status # "success" THEN "error"
       ELSE "success"

getDisplayState(snapshot, update_frequency, clock) ==
  IF snapshot = Null THEN "awaiting"
  ELSE IF snapshot.fetch_status # "success" THEN "error"
  ELSE LET hoursSinceFetch == clock - snapshot.fetched_at IN
       IF includes(update_frequency, "Weekly") /\ hoursSinceFetch > WeeklyStaleHours
         THEN "stale"
       ELSE IF includes(update_frequency, "Daily") /\ hoursSinceFetch > DailyStaleHours
         THEN "stale"
       ELSE "success"

\* the fields of the card that posture synthesis and the claims read
transformToCardData(indicatorId, snapshot, update_frequency, clock) ==
  [ indicatorId  |-> indicatorId,
    displayState |-> getDisplayState(snapshot, update_frequency, clock),
    signal       |-> IF snapshot = Null THEN "null" ELSE snapshot.signal,
    fetchStatus  |-> IF snapshot = Null THEN "null" ELSE snapshot.fetch_status ]

\* Array.prototype.find over the latest snapshots, by indicator id
findSnapshot(snaps, id) ==
  IF \E s \in snaps : s.indicator_id = id
    THEN CHOOSE s \in snaps : s.indicator_id = id
    ELSE Null

\* page.tsx getIndicatorCards: one card per metadata entry
getIndicatorCards(snaps, m, clock) ==
  [ id \in IndicatorIds |->
      transformToCardData(id, findSnapshot(snaps, id), getMetadataForMetal(m)[id], clock) ]

(***************************************************************************)
(* Posture synthesis of the dashboard banner (app/page.tsx)                *)
(***************************************************************************)
MinAvailable == 8

availableCards(cs) == { id \in IndicatorIds : cs[id].displayState = "success" }
cardRedCount(cs) == Cardinality({ id \in availableCards(cs) : cs[id].signal = "red" })
cardGreenCount(cs) == Cardinality({ id \in availableCards(cs) : cs[id].signal = "green" })

\* variant: the BUY rule does not look at the red count
calculatePosture_buyIgnoresRed(cs) ==
  LET available == Cardinality(availableCards(cs))
      redCount == cardRedCount(cs)
      greenCount == cardGreenCount(cs)
  IN  IF available < MinAvailable THEN "INSUFFICIENT_DATA"
      ELSE IF redCount >= 4 THEN "SELL"
      ELSE IF greenCount >= 7 THEN "BUY"
      ELSE IF redCount >= 3 \/ (redCount > 0 /\ greenCount < 5) THEN "CAUTION"
      ELSE "NEUTRAL"

calculatePosture(cs) ==
  LET available == Cardinality(availableCards(cs))
      redCount == cardRedCount(cs)
      greenCount == cardGreenCount(cs)
  IN  IF available < MinAvailable THEN "INSUFFICIENT_DATA"
      ELSE IF redCount >= 4 THEN "SELL"
      ELSE IF greenCount >= 7 /\ redCount = 0 THEN "BUY"
      ELSE IF redCount >= 3 \/ (redCount > 0 /\ greenCount < 5) THEN "CAUTION"
      ELSE "NEUTRAL"

(***************************************************************************)
(* Posture synthesis of the daily briefing (api/generate-briefing)         *)
(***************************************************************************)
validSnapshots(snaps) == { s \in snaps : s.fetch_status = "success" }
snapRedCount(snaps) == Cardinality({ s \in validSnapshots(snaps) : s.signal = "red" })
snapGreenCount(snaps) == Cardinality({ s \in validSnapshots(snaps) : s.signal = "green" })

\* optional chaining: snapshot?.signal === 'red'
signalIsRed(snapshot) == snapshot # Null /\ snapshot.signal = "red"

\* variant: the SELL rule runs before the availability gate
calculatePostureBriefing_sellBeforeGate(snaps) ==
  LET greenCount == snapGreenCount(snaps)
      redCount == snapRedCount(snaps)
      fndRatio == findSnapshot(snaps, FND_RATIO)
      margins == findSnapshot(snaps, MARGIN_REQUIREMENTS)
  IN  IF redCount >= 4 \/ signalIsRed(margins) THEN "SELL"
      ELSE IF Cardinality(validSnapshots(snaps)) < MinAvailable THEN "INSUFFICIENT_DATA"
      ELSE IF greenCount >= 7 /\ redCount = 0 /\ ~signalIsRed(fndRatio) THEN "BUY"
      ELSE IF redCount >= 3 \/ signalIsRed(fndRatio) THEN "CAUTION"
      ELSE "NEUTRAL"

calculatePostureBriefing(snaps) ==
  LET greenCount == snapGreenCount(snaps)
      redCount == snapRedCount(snaps)
      fndRatio == findSnapshot(snaps, FND_RATIO)
      margins == findSnapshot(snaps, MARGIN_REQUIREMENTS)
  IN  IF Cardinality(validSnapshots(snaps)) < MinAvailable THEN "INSUFFICIENT_DATA"
      ELSE IF redCount >= 4 \/ signalIsRed(margins) THEN "SELL"
      ELSE IF greenCount >= 7 /\ redCount = 0 /\ ~signalIsRed(fndRatio) THEN "BUY"
      ELSE IF redCount >= 3 \/ signalIsRed(fndRatio) THEN "CAUTION"
      ELSE "NEUTRAL"

(***************************************************************************)
(* Observation rows (indicator_snapshots)                                  *)
(***************************************************************************)
\* raw_value payloads, reduced to the fields that some reader looks at
RawPlain == [kind |-> "data"]
RawError == [kind |-> "error"]
RawManualEdit == [kind |-> "manualEdit"]
RawBrowserUse == [kind |-> "browserUse"]
RawDelivery(isDeliveryMonth) == [kind |-> "delivery", isDeliveryMonth |-> isDeliveryMonth]

HoursPerDay == 24

\* toISOString().split('T')[0]: the calendar day of a timestamp
dateOf(t) == t \div HoursPerDay

mkRow(id, indicatorId, m, fetchedAt, dataDate, raw, signal, status) ==
  [ id |-> id, indicator_id |-> indicatorId, metal |-> m,
    fetched_at |-> fetchedAt, data_date |-> dataDate, raw_value |-> raw,
    signal |-> signal, fetch_status |-> status ]

(***************************************************************************)
(* The two readers of the latest observations                              *)
(***************************************************************************)
NotRendered == <<>>
NoPosture == "none"
NoBriefing == [posture |-> "none", overall_posture |-> "none"]

\* outcome of the request just handled, when it was a pass over several
\* indicators: those whose step threw, those left without a row for want of
\* input, and those a row was written for
NoPass == [route |-> "none", failed |-> {}, skipped |-> {}, stored |-> {}, prior |-> {}]

\* a function call under evaluation: its arguments, what it returned, and
\* what it returned when called again with the same arguments
NoArgs == [fn |-> "none"]
NoResult == [signal |-> "none"]
\* the COT requests in flight: none outside the specification of the COT routes
NoRequests == <<>>
NotEvaluating ==
  args = NoArgs /\ result = NoResult /\ again = NoResult /\ requests = NoRequests

\* app/page.tsx DashboardPage: cards, then the banner posture
LoadDashboard ==
  /\ cards = NotRendered
  /\ cards' = getIndicatorCards(snapshots, metal, now)
  /\ banner' = calculatePosture(cards')
  /\ UNCHANGED <<store, now, metal, snapshots, briefing, pass, evalVars, requests>>

\* api/generate-briefing GET: the computed posture goes into the prompt,
\* the stored overall_posture is whatever the language model answers
GenerateBriefing ==
  /\ briefing = NoBriefing
  /\ \E answer \in PostureType :
       briefing' = [ posture |-> calculatePostureBriefing(snapshots),
                     overall_posture |-> answer ]
  /\ UNCHANGED <<store, now, metal, snapshots, cards, banner, pass, evalVars, requests>>

ViewNext == LoadDashboard \/ GenerateBriefing

(***************************************************************************)
(* Inputs of the display-state resolver: one indicator, every age          *)
(***************************************************************************)
SignalsOfStatus(status) == IF status = "success" THEN ScoreSignals ELSE {"error"}

RawsOf(indicatorId, status) ==
  IF status # "success" THEN {RawError}
  ELSE IF indicatorId = DELIVERY_ACTIVITY THEN {RawDelivery(TRUE), RawDelivery(FALSE)}
  ELSE {RawPlain}

SingleSnapshots(m) ==
  { mkRow(id, id, m, 0, 0, raw, sig, st) :
      <<id, st, sig, raw>> \in
        { q \in IndicatorIds \X FetchStatus \X SignalType \X
                 {RawPlain, RawError, RawDelivery(TRUE), RawDelivery(FALSE)} :
            /\ q[3] \in SignalsOfStatus(q[2])
            /\ q[4] \in RawsOf(q[1], q[2]) } }

InitDisplay ==
  /\ store = <<>>
  /\ metal \in Metals
  /\ now \in 0..MaxHours
  /\ snapshots \in {{}} \cup { {s} : s \in SingleSnapshots(metal) }
  /\ cards = NotRendered
  /\ banner = NoPosture
  /\ briefing = NoBriefing
  /\ pass = NoPass
  /\ NotEvaluating

SpecDisplay == InitDisplay /\ [][ViewNext]_vars

(***************************************************************************)
(* Inputs of posture synthesis: the latest observation of all twelve       *)
(* indicators.  The two override indicators (#6, #11) take every kind of   *)
(* observation; the other ten, which both synthesizers treat alike, are    *)
(* filled in id order from a profile of counts.                            *)
(***************************************************************************)
Others == <<1, 2, 3, 4, 5, 7, 8, 9, 10, 12>>

\* kinds of latest observation: none, failed fetch, fresh success, old success
Kinds == {"none", "err", "green", "yellow", "red", "oldRed", "oldGreen"}

rowOfKind(indicatorId, m, kind, clock) ==
  CASE kind = "err"      -> mkRow(indicatorId, indicatorId, m, clock, dateOf(clock), RawError, "error", "error")
    [] kind = "oldRed"   -> mkRow(indicatorId, indicatorId, m, clock - OldAge, dateOf(clock - OldAge), RawPlain, "red", "success")
    [] kind = "oldGreen" -> mkRow(indicatorId, indicatorId, m, clock - OldAge, dateOf(clock - OldAge), RawPlain, "green", "success")
    [] OTHER             -> mkRow(indicatorId, indicatorId, m, clock, dateOf(clock), RawPlain, kind, "success")

\* kind of the k-th of the other indicators under a profile of counts
kindAt(k, nGreen, nYellow, nRed, nOld, oldKind, nErr) ==
  IF k <= nGreen THEN "green"
  ELSE IF k <= nGreen + nYellow THEN "yellow"
  ELSE IF k <= nGreen + nYellow + nRed THEN "red"
  ELSE IF k <= nGreen + nYellow + nRed + nOld THEN oldKind
  ELSE IF k <= nGreen + nYellow + nRed + nOld + nErr THEN "err"
  ELSE "none"

buildSnapshots(m, clock, k6, k11, nGreen, nYellow, nRed, nOld, oldKind, nErr) ==
  LET kindOf(id) ==
        IF id = MARGIN_REQUIREMENTS THEN k6
        ELSE IF id = FND_RATIO THEN k11
        ELSE kindAt(CHOOSE k \in 1..Len(Others) : Others[k] = id,
                    nGreen, nYellow, nRed, nOld, oldKind, nErr)
  IN  { rowOfKind(id, m, kindOf(id), clock) : id \in { i \in IndicatorIds : kindOf(i) # "none" } }

InitPosture ==
  /\ store = <<>>
  /\ metal = "silver"
  /\ now = OldAge
  /\ \E k6 \in Kinds \ {"oldGreen"}, k11 \in Kinds \ {"oldGreen"} :
     \E nGreen \in 0..Len(Others), nYellow \in 0..Len(Others), nRed \in 0..Len(Others) :
     \E nOld \in 0..MaxOld, oldKind \in {"oldRed", "oldGreen"}, nErr \in 0..MaxErr :
       /\ nGreen + nYellow + nRed + nOld + nErr <= Len(Others)
       /\ snapshots = buildSnapshots(metal, now, k6, k11, nGreen, nYellow, nRed, nOld, oldKind, nErr)
  /\ cards = NotRendered
  /\ banner = NoPosture
  /\ briefing = NoBriefing
  /\ pass = NoPass
  /\ NotEvaluating

SpecPosture == InitPosture /\ [][ViewNext]_vars

(***************************************************************************)
(* The observation store (lib/db/queries) and the routes that write it.    *)
(* A request carries the behaviour's ?metal= parameter; routes that pass   *)
(* no metal write and read 'silver'.  The clock moves on by one hour with  *)
(* every request that writes, and stands at day MaxDay at the start.       *)
(***************************************************************************)
ReportDates == 0..MaxDay
DefaultMetal == "silver"

\* variant: a row of the same indicator, metal and data_date is overwritten
insertSnapshot_upsert(st, snapshot) ==
  LET same(r) == /\ r.indicator_id = snapshot.indicator_id
                 /\ r.metal = snapshot.metal
                 /\ r.data_date = snapshot.data_date
  IN  IF \E i \in 1..Len(st) : same(st[i])
        THEN [ i \in 1..Len(st) |->
                 IF same(st[i])
                   THEN mkRow(st[i].id, snapshot.indicator_id, snapshot.metal,
                              snapshot.fetched_at, snapshot.data_date, snapshot.raw_value,
                              snapshot.signal, snapshot.fetch_status)
                   ELSE st[i] ]
        ELSE Append(st, mkRow(Len(st) + 1, snapshot.indicator_id, snapshot.metal,
                              snapshot.fetched_at, snapshot.data_date, snapshot.raw_value,
                              snapshot.signal, snapshot.fetch_status))

\* INSERT INTO indicator_snapshots ... RETURNING * : a new row, next id
insertSnapshot(st, snapshot) ==
  Append(st, mkRow(Len(st) + 1, snapshot.indicator_id, snapshot.metal,
                   snapshot.fetched_at, snapshot.data_date, snapshot.raw_value,
                   snapshot.signal, snapshot.fetch_status))

\* an IndicatorSnapshotInsert (no id)
mkInsert(indicatorId, m, fetchedAt, dataDate, raw, signal, status) ==
  [ indicator_id |-> indicatorId, metal |-> m, fetched_at |-> fetchedAt,
    data_date |-> dataDate, raw_value |-> raw, signal |-> signal,
    fetch_status |-> status ]

rowsOf(st, indicatorId, m) ==
  { st[i] : i \in { j \in 1..Len(st) : st[j].indicator_id = indicatorId /\ st[j].metal = m } }

\* ORDER BY fetched_at DESC LIMIT 1: any of the rows with the greatest
\* fetched_at (the order among equal timestamps is not specified)
getLatestSnapshot(st, indicatorId, m) ==
  { r \in rowsOf(st, indicatorId, m) :
      \A q \in rowsOf(st, indicatorId, m) : q.fetched_at <= r.fetched_at }

\* variant: ORDER BY id ASC, the first row written of each indicator
getLatestSnapshots_oldest(st, m) ==
  { r \in UNION { rowsOf(st, id, m) : id \in IndicatorIds } :
      \A q \in rowsOf(st, r.indicator_id, m) : q.id >= r.id }

\* ROW_NUMBER() OVER (PARTITION BY indicator_id ORDER BY id DESC) = 1
getLatestSnapshots(st, m) ==
  { r \in UNION { rowsOf(st, id, m) : id \in IndicatorIds } :
      \A q \in rowsOf(st, r.indicator_id, m) : q.id <= r.id }

snapshotExists(st, indicatorId, dataDate, m) ==
  \E r \in rowsOf(st, indicatorId, m) : r.data_date = dataDate

\* variant: the error row carries a traffic-light signal
createErrorSnapshot_yellow(indicatorId, m, clock) ==
  mkInsert(indicatorId, m, clock, dateOf(clock), RawError, "yellow", "error")

\* the error row every fetch route writes on failure
createErrorSnapshot(indicatorId, m, clock) ==
  mkInsert(indicatorId, m, clock, dateOf(clock), RawError, "error", "error")

insertErrorSnapshot(st, indicatorId, m, clock) ==
  insertSnapshot(st, createErrorSnapshot(indicatorId, m, clock))

\* the success row a route writes after scoring
successSnapshot(indicatorId, m, clock, dataDate, raw, signal) ==
  mkInsert(indicatorId, m, clock, dataDate, raw, signal, "success")

\* a fetch route for one indicator: error row on failure, scored row else
storeFetched(st, indicatorId, m, ok, raw, signal, clock) ==
  IF ~ok THEN insertErrorSnapshot(st, indicatorId, m, clock)
  ELSE insertSnapshot(st, successSnapshot(indicatorId, m, clock, dateOf(clock), raw, signal))

\* lib/api/cme/scorer scoreDeliveryActivity: green outside a delivery month
scoreDeliveryActivity(isDeliveryMonth, scored) ==
  IF ~isDeliveryMonth THEN "green" ELSE scored

\* api/fetch-cme-daily: #2, #1, #3, #8 in this order; roll patterns need OI
processVaultStocks(st, ok, signal, clock) ==
  storeFetched(st, VAULT_INVENTORY, DefaultMetal, ok, RawPlain, signal, clock)
processOpenInterest(st, ok, signal, clock) ==
  storeFetched(st, OPEN_INTEREST, DefaultMetal, ok, RawPlain, signal, clock)
processDeliveries(st, ok, isDeliveryMonth, signal, clock) ==
  storeFetched(st, DELIVERY_ACTIVITY, DefaultMetal, ok, RawDelivery(isDeliveryMonth),
               scoreDeliveryActivity(isDeliveryMonth, signal), clock)
processRollPatterns(st, oiOk, signal, clock) ==
  storeFetched(st, ROLL_PATTERNS, DefaultMetal, oiOk, RawPlain, signal, clock)

\* the signals a scorer may return when it runs; one placeholder otherwise
scoresIf(runs) == IF runs THEN ScoreSignals ELSE {"green"}

\* the hour at which the behaviour starts
StartHour == MaxDay * HoursPerDay

\* a request may start while fewer than MaxRows rows were written since
\* the start
CanRun == Cardinality({ i \in 1..Len(store) : store[i].fetched_at >= StartHour }) < MaxRows

\* the clock after a request that left the store as st
tick(st) == IF st # store THEN now + 1 ELSE now

WrittenBy(st, p) ==
  /\ store' = st
  /\ now' = tick(st)
  /\ pass' = p
  /\ UNCHANGED <<metal, snapshots, cards, banner, briefing, evalVars, requests>>

Written(st) == WrittenBy(st, NoPass)

\* the prior observation a step reads as comparison baseline: the newest
\* row of the indicator, whatever its fetch_status
priorOf(st, indicatorId) == getLatestSnapshot(st, indicatorId, DefaultMetal)

\* the steps of GET in the order it awaits them
CmeSteps == <<VAULT_INVENTORY, OPEN_INTEREST, DELIVERY_ACTIVITY, ROLL_PATTERNS>>

\* GET awaits the four steps one after the other with no try/catch: when
\* the insert of step throwAt throws (throwAt = 0: none does), the steps
\* before it have written their rows and the steps after it never run
fetchCmeDaily(throwAts) ==
  /\ CanRun
  /\ \E throwAt \in throwAts :
     LET runs(k) == throwAt = 0 \/ k < throwAt
         flags(k) == IF runs(k) THEN BOOLEAN ELSE {TRUE}
         scores(k) == throwAt = 0 \/ k <= throwAt
     IN
     \E vaultOk \in flags(1), oiOk \in flags(2), deliveryOk \in flags(3), inMonth \in flags(3) :
     \E sVault \in scoresIf(runs(1) /\ vaultOk), sOi \in scoresIf(runs(2) /\ oiOk),
        sDel \in scoresIf(runs(3) /\ deliveryOk /\ inMonth),
        sRoll \in scoresIf(runs(4) /\ oiOk) :
       LET s1 == processVaultStocks(store, vaultOk, sVault, now)
           s2 == processOpenInterest(s1, oiOk, sOi, now)
           s3 == processDeliveries(s2, deliveryOk, inMonth, sDel, now)
           s4 == processRollPatterns(s3, oiOk, sRoll, now)
           after == <<store, s1, s2, s3, s4>>
           done == IF throwAt = 0 THEN Len(CmeSteps) ELSE throwAt - 1
           priorVault == IF scores(1) /\ vaultOk
                           THEN priorOf(store, VAULT_INVENTORY) ELSE {}
           priorOi == IF scores(2) /\ oiOk
                        THEN priorOf(s1, OPEN_INTEREST) ELSE {}
           priorRoll == IF scores(4) /\ oiOk
                          THEN priorOf(s3, OPEN_INTEREST) ELSE {}
       IN  WrittenBy(after[done + 1],
                     [ route   |-> "fetch-cme-daily",
                       failed  |-> IF throwAt = 0 THEN {} ELSE {CmeSteps[throwAt]},
                       skipped |-> {},
                       stored  |-> { CmeSteps[k] : k \in 1..done },
                       prior   |-> priorVault \cup priorOi \cup priorRoll ])

\* the pass while the database accepts every insert
FetchCmeDaily == fetchCmeDaily({0})

\* the pass in which an insert throws
FetchCmeDailyThrows == fetchCmeDaily(1..Len(CmeSteps))

\* both COT rows of one report date
insertCotPair(st, m, reportDate, sSpec, sComm, clock) ==
  LET s1 == insertSnapshot(st, successSnapshot(COT_SPECULATOR, m, clock, reportDate, RawPlain, sSpec))
  IN  insertSnapshot(s1, successSnapshot(COT_COMMERCIAL, m, clock, reportDate, RawPlain, sComm))

\* api/fetch-cot GET
FetchCot ==
  /\ CanRun
  /\ \E ok \in BOOLEAN :
     \E reportDate \in IF ok THEN ReportDates ELSE {0} :
     \E sSpec \in scoresIf(ok), sComm \in scoresIf(ok) :
       IF ~ok
         THEN Written(insertErrorSnapshot(
                        insertErrorSnapshot(store, COT_SPECULATOR, metal, now),
                        COT_COMMERCIAL, metal, now))
       ELSE IF snapshotExists(store, COT_SPECULATOR, reportDate, metal)
         THEN Written(store)
       ELSE Written(insertCotPair(store, metal, reportDate, sSpec, sComm, now))

\* api/backfill-cot processCOTBatch over the report dates, oldest first
RECURSIVE processCOTBatch(_, _, _, _, _)
processCOTBatch(st, dates, i, scores, clock) ==
  IF i > MaxDay THEN st
  ELSE IF i \notin dates \/ snapshotExists(st, COT_SPECULATOR, i, DefaultMetal)
    THEN processCOTBatch(st, dates, i + 1, scores, clock)
  ELSE processCOTBatch(insertCotPair(st, DefaultMetal, i, scores[i][1], scores[i][2], clock),
                       dates, i + 1, scores, clock)

\* api/backfill-cot GET
BackfillCot ==
  /\ CanRun
  /\ \E ok \in BOOLEAN :
     \E dates \in IF ok THEN SUBSET ReportDates ELSE {{}} :
     \E scores \in { f \in [ReportDates -> ScoreSignals \X ScoreSignals] :
                       \A i \in ReportDates \ dates : f[i] = <<"green", "green">> } :
       IF ~ok THEN Written(store)
       ELSE Written(processCOTBatch(store, dates, 0, scores, now))

\* api/fetch-margins GET
FetchMargins ==
  /\ CanRun
  /\ \E ok \in BOOLEAN, signal \in ScoreSignals :
       Written(storeFetched(store, MARGIN_REQUIREMENTS, metal, ok, RawPlain, signal, now))

\* api/fetch-spot-prices GET
FetchSpotPrices ==
  /\ CanRun
  /\ \E ok \in BOOLEAN, signal \in ScoreSignals :
       Written(storeFetched(store, BACKWARDATION, metal, ok, RawPlain, signal, now))

\* api/fetch-shanghai GET
FetchShanghai ==
  /\ CanRun
  /\ \E ok \in BOOLEAN, signal \in ScoreSignals :
       Written(storeFetched(store, SHANGHAI_PREMIUM, metal, ok, RawPlain, signal, now))

DerivedIds == {LEASE_RATES, FND_RATIO, CVOL}

\* api/compute-derived: a derived indicator is stored when its inputs have a
\* latest row and nothing throws; otherwise the step returns without a row
computeAndStore(st, indicatorId, m, inputsPresent, ok, signal, clock) ==
  IF inputsPresent /\ ok
    THEN insertSnapshot(st, successSnapshot(indicatorId, m, clock, dateOf(clock), RawPlain, signal))
    ELSE st

\* GET: the three steps, each inside its own try/catch
ComputeDerived ==
  /\ CanRun
  /\ \E leaseOk \in BOOLEAN, fndOk \in BOOLEAN, cvolOk \in BOOLEAN :
     \E sLease \in scoresIf(leaseOk), sFnd \in scoresIf(fndOk), sCvol \in scoresIf(cvolOk) :
       LET leaseIn == getLatestSnapshot(store, BACKWARDATION, metal) # {}
           s1 == computeAndStore(store, LEASE_RATES, metal, leaseIn, leaseOk, sLease, now)
           fndIn == /\ getLatestSnapshot(s1, OPEN_INTEREST, metal) # {}
                    /\ getLatestSnapshot(s1, VAULT_INVENTORY, metal) # {}
           s2 == computeAndStore(s1, FND_RATIO, metal, fndIn, fndOk, sFnd, now)
           s3 == computeAndStore(s2, CVOL, metal, TRUE, cvolOk, sCvol, now)
           ok == [id \in DerivedIds |->
                    IF id = LEASE_RATES THEN leaseOk ELSE IF id = FND_RATIO THEN fndOk ELSE cvolOk]
           present == [id \in DerivedIds |->
                    IF id = LEASE_RATES THEN leaseIn ELSE IF id = FND_RATIO THEN fndIn ELSE TRUE]
       IN  WrittenBy(s3,
                     [ route   |-> "compute-derived",
                       failed  |-> { id \in DerivedIds : ~ok[id] },
                       skipped |-> { id \in DerivedIds : ok[id] /\ ~present[id] },
                       stored  |-> { id \in DerivedIds : ok[id] /\ present[id] },
                       prior   |-> {} ])

\* the manual value edit (POST): keeps the latest row's signal, or yellow;
\* the request's indicatorId is any id, drawn here from three of them
ManualEditIds == {OPEN_INTEREST, VAULT_INVENTORY, MARGIN_REQUIREMENTS}

manualEditSnapshot(indicatorId, latest, clock) ==
  mkInsert(indicatorId, DefaultMetal, clock, dateOf(clock), RawManualEdit,
           IF latest = Null THEN "yellow" ELSE latest.signal, "success")

ManualEdit ==
  /\ CanRun
  /\ \E indicatorId \in ManualEditIds :
     \E latest \in IF getLatestSnapshot(store, indicatorId, DefaultMetal) = {}
                     THEN {Null} ELSE getLatestSnapshot(store, indicatorId, DefaultMetal) :
       Written(insertSnapshot(store, manualEditSnapshot(indicatorId, latest, now)))

\* api/browser-prompt POST with runImmediately: a yellow row when the
\* browser task returns a number, no row otherwise
BROWSER_PROMPT_INDICATORS == {OPEN_INTEREST, MARGIN_REQUIREMENTS}

runBrowserTask(st, indicatorId, m, ok, clock) ==
  IF ok THEN insertSnapshot(st, mkInsert(indicatorId, m, clock, dateOf(clock),
                                         RawBrowserUse, "yellow", "success"))
  ELSE st

BrowserPrompt ==
  /\ CanRun
  /\ \E indicatorId \in BROWSER_PROMPT_INDICATORS, ok \in BOOLEAN :
       Written(runBrowserTask(store, indicatorId, metal, ok, now))

Init ==
  /\ store = <<>>
  /\ now = StartHour
  /\ metal \in Metals
  /\ snapshots = {}
  /\ cards = NotRendered
  /\ banner = NoPosture
  /\ briefing = NoBriefing
  /\ pass = NoPass
  /\ NotEvaluating

Next ==
  \/ FetchCmeDaily
  \/ FetchCot
  \/ BackfillCot
  \/ FetchMargins
  \/ FetchSpotPrices
  \/ FetchShanghai
  \/ ComputeDerived
  \/ ManualEdit
  \/ BrowserPrompt

Spec == Init /\ [][Next]_vars

(***************************************************************************)
(* Passes over several indicators, and the dashboard reading the store     *)
(***************************************************************************)
\* page.tsx createFallbackCards: every card awaiting
createFallbackCards(m) ==
  [ id \in IndicatorIds |->
      [ indicatorId |-> id, displayState |-> "awaiting", signal |-> "null", fetchStatus |-> "null" ] ]

\* page.tsx DashboardPage from the store: getIndicatorData returns null when
\* a query throws, getIndicatorCards then falls back; the posture is
\* computed from whatever cards there are
DashboardPage ==
  /\ \E dbOk \in BOOLEAN :
       /\ snapshots' = IF dbOk THEN getLatestSnapshots(store, metal) ELSE {}
       /\ cards' = IF dbOk THEN getIndicatorCards(snapshots', metal, now)
                           ELSE createFallbackCards(metal)
       /\ banner' = calculatePosture(cards')
  /\ UNCHANGED <<store, now, metal, briefing, pass, evalVars, requests>>

\* the store after a complete fetch-cme-daily pass at hour 0
SeedStore ==
  processRollPatterns(
    processDeliveries(
      processOpenInterest(
        processVaultStocks(<<>>, TRUE, "yellow", 0), TRUE, "yellow", 0),
      TRUE, TRUE, "yellow", 0),
    TRUE, "yellow", 0)

InitPass ==
  /\ store \in {<<>>, SeedStore}
  /\ now = StartHour
  /\ metal \in Metals
  /\ snapshots = {}
  /\ cards = NotRendered
  /\ banner = NoPosture
  /\ briefing = NoBriefing
  /\ pass = NoPass
  /\ NotEvaluating

PassNext ==
  \/ FetchCmeDaily
  \/ FetchCmeDailyThrows
  \/ FetchSpotPrices
  \/ ComputeDerived
  \/ DashboardPage

SpecPass == InitPass /\ [][PassNext]_vars

(***************************************************************************)
(* The fetchers' last resort: every real source failed and the fetcher     *)
(* returns a hard-coded value with success: true                           *)
(***************************************************************************)
\* source_url 'hardcoded-fallback'
RawFallback == [kind |-> "fallback"]

\* fetchMargins returns the hard-coded margin; the route scores and stores it
FetchMarginsFallback ==
  /\ CanRun
  /\ \E signal \in ScoreSignals :
       Written(storeFetched(store, MARGIN_REQUIREMENTS, metal, TRUE, RawFallback, signal, now))

\* fetchOpenInterest and fetchDeliveries return their hard-coded values in a
\* delivery month; the vault fetch succeeds or fails as usual
FetchCmeDailyFallback ==
  /\ CanRun
  /\ \E vaultOk \in BOOLEAN :
     \E sVault \in scoresIf(vaultOk), sOi \in ScoreSignals, sDel \in ScoreSignals,
        sRoll \in ScoreSignals :
       LET s1 == processVaultStocks(store, vaultOk, sVault, now)
           s2 == storeFetched(s1, OPEN_INTEREST, DefaultMetal, TRUE, RawFallback, sOi, now)
           s3 == storeFetched(s2, DELIVERY_ACTIVITY, DefaultMetal, TRUE, RawFallback,
                              scoreDeliveryActivity(TRUE, sDel), now)
           s4 == storeFetched(s3, ROLL_PATTERNS, DefaultMetal, TRUE, RawFallback, sRoll, now)
       IN  Written(s4)

FallbackNext ==
  \/ FetchMargins
  \/ FetchMarginsFallback
  \/ FetchCmeDailyFallback
  \/ DashboardPage

SpecFallback == InitPass /\ [][FallbackNext]_vars

(***************************************************************************)
(* Properties of the observation store                                     *)
(***************************************************************************)
\* C6: every stored observation whose fetch_status is not success has
\* signal error, whichever route wrote it.
C6_FailedFetchHasErrorSignal ==
  \A i \in 1..Len(store) :
    store[i].fetch_status # "success" => store[i].signal = "error"

\* failed rows written by two different routes (margins and CME daily)
C6_Witness ==
  \E i, j \in 1..Len(store) :
    /\ store[i].indicator_id = MARGIN_REQUIREMENTS /\ store[i].fetch_status # "success"
    /\ store[j].indicator_id = VAULT_INVENTORY /\ store[j].fetch_status # "success"
    /\ store[i].signal = "error" /\ store[j].signal = "error"

\* C7: the store is append-only: no operation changes or deletes a row that
\* was written, and an observation for the same indicator and dataDate is
\* added as a new row.
C7_AppendOnly ==
  [][ \A i \in 1..Len(store) : i <= Len(store') /\ store'[i] = store[i] ]_vars

\* two rows of the same indicator, metal and dataDate, the older one kept
C7_Witness ==
  \E i, j \in 1..Len(store) :
    /\ i < j
    /\ store[i].indicator_id = store[j].indicator_id
    /\ store[i].metal = store[j].metal
    /\ store[i].data_date = store[j].data_date
    /\ store[i].id # store[j].id
    /\ store[i].signal # store[j].signal

(***************************************************************************)
(* Properties of posture synthesis                                         *)
(***************************************************************************)
Rendered == cards # NotRendered
Briefed == briefing # NoBriefing

OverrideIds == {MARGIN_REQUIREMENTS, FND_RATIO}

\* what the dashboard tallies: cards in display state success
bannerAvailable == Cardinality(availableCards(cards))
bannerOverrideRed == \E id \in OverrideIds : id \in availableCards(cards) /\ cards[id].signal = "red"

\* what the briefing tallies: snapshots with fetch_status success
briefingAvailable == Cardinality(validSnapshots(snapshots))
briefingOverrideRed == \E s \in validSnapshots(snapshots) : s.indicator_id \in OverrideIds /\ s.signal = "red"

\* the display states of the observations the briefing was computed from
viewCards == getIndicatorCards(snapshots, metal, now)
successOnly(snaps) == { s \in snaps : viewCards[s.indicator_id].displayState = "success" }
viewAvailable == Cardinality(availableCards(viewCards))
viewOverrideRed == \E id \in OverrideIds : id \in availableCards(viewCards) /\ viewCards[id].signal = "red"

\* C1: with at least 8 indicators available and margin (#6) or FND ratio
\* (#11) individually RED, the posture is SELL whatever the red and green
\* counts are (stated for the banner and for the briefing posture).
C1_OverrideForcesSell ==
  /\ (Rendered /\ bannerAvailable >= MinAvailable /\ bannerOverrideRed) => banner = "SELL"
  /\ (Briefed /\ viewAvailable >= MinAvailable /\ viewOverrideRed) => briefing.posture = "SELL"

C3_OnlySuccessContributes ==
  /\ Rendered => banner = calculatePosture(getIndicatorCards(successOnly(snapshots), metal, now))
  /\ Briefed => briefing.posture = calculatePostureBriefing(successOnly(snapshots))

C5_CautionElseNeutral ==
  /\ (Rendered /\ bannerAvailable >= MinAvailable
        /\ ~(cardRedCount(cards) >= 4 \/ bannerOverrideRed)
        /\ ~(cardGreenCount(cards) >= 7 /\ cardRedCount(cards) = 0))
       => banner = IF cardRedCount(cards) >= 3 \/ (cardRedCount(cards) > 0 /\ cardGreenCount(cards) < 5)
                     THEN "CAUTION" ELSE "NEUTRAL"
  /\ (Briefed /\ briefingAvailable >= MinAvailable
        /\ ~(snapRedCount(snapshots) >= 4 \/ briefingOverrideRed)
        /\ ~(snapGreenCount(snapshots) >= 7 /\ snapRedCount(snapshots) = 0))
       => briefing.posture =
            IF snapRedCount(snapshots) >= 3 \/ (snapRedCount(snapshots) > 0 /\ snapGreenCount(snapshots) < 5)
              THEN "CAUTION" ELSE "NEUTRAL"

(***************************************************************************)
(* Properties of the display-state resolver                                *)
(***************************************************************************)
latestOf(id) == findSnapshot(snapshots, id)
ageOf(s) == now - s.fetched_at

\* C8: no observation resolves to awaiting, and an observation whose
\* fetch_status is not success resolves to error even when it is older than
\* the staleness limit.
C8_AwaitingThenError ==
  Rendered => \A id \in IndicatorIds :
    /\ latestOf(id) = Null => cards[id].displayState = "awaiting"
    /\ (latestOf(id) # Null /\ latestOf(id).fetch_status # "success")
         => cards[id].displayState = "error"

\* a failed observation older than the weekly staleness limit shows error
C8_Witness ==
  /\ Rendered
  /\ \E id \in IndicatorIds :
       /\ latestOf(id) # Null /\ latestOf(id).fetch_status # "success"
       /\ ageOf(latestOf(id)) > WeeklyStaleHours
       /\ cards[id].displayState = "error"
  /\ \E id \in IndicatorIds : latestOf(id) = Null /\ cards[id].displayState = "awaiting"

\* expected update cadence of each indicator, in hours: the COT reports
\* (#4, #5) are weekly, every other indicator is fetched or checked daily
ExpectedCadenceHours(id) ==
  IF id \in {COT_SPECULATOR, COT_COMMERCIAL} THEN 7 * HoursPerDay ELSE HoursPerDay

\* C9: for each of the 12 indicators a successfully fetched latest
\* observation resolves to stale if and only if the time since fetchedAt
\* exceeds twice the indicator's expected update cadence.
C9_StaleIffTwiceCadence ==
  Rendered => \A id \in IndicatorIds :
    (latestOf(id) # Null /\ latestOf(id).fetch_status = "success")
      => (cards[id].displayState = "stale"
            <=> ageOf(latestOf(id)) > 2 * ExpectedCadenceHours(id))

\* C10: a fresh, successfully fetched observation of the delivery-activity
\* indicator taken outside a delivery month resolves to not_applicable.
C10_NotApplicableWindow ==
  Rendered =>
    LET s == latestOf(DELIVERY_ACTIVITY) IN
      (s # Null /\ s.fetch_status = "success"
         /\ s.raw_value = RawDelivery(FALSE)
         /\ ageOf(s) <= 2 * ExpectedCadenceHours(DELIVERY_ACTIVITY))
        => cards[DELIVERY_ACTIVITY].displayState = "not_applicable"

(***************************************************************************)
(* Properties of the passes over several indicators                        *)
(***************************************************************************)
\* C11: a failure while evaluating or storing one indicator never prevents
\* the remaining indicators of the same pass from being evaluated and
\* stored, and never prevents posture synthesis from running: after a pass
\* every indicator of it whose own step did not fail (and whose inputs were
\* there) has its row, and the dashboard has a posture whenever it rendered.
C11_FailureIsIsolated ==
  /\ pass.route = "fetch-cme-daily" =>
        ({ CmeSteps[k] : k \in 1..Len(CmeSteps) } \ pass.failed) \subseteq pass.stored
  /\ pass.route = "compute-derived" =>
        (DerivedIds \ (pass.failed \cup pass.skipped)) \subseteq pass.stored
  /\ Rendered => banner \in PostureType

(***************************************************************************)
(* The scorers (lib/api/cftc/scorer, lib/api/cme/scorer, margins/fetcher). *)
(* A percentile is kept as the exact fraction num / den; comparing it with *)
(* a threshold by cross-multiplication agrees with the floating-point      *)
(* comparison of (count / length) * 100 for every count and length.        *)
(***************************************************************************)
MaxHistory == 3        \* longest history enumerated value by value
ScenarioPoints == 100  \* length of the long two-valued histories

Abs(x) == IF x < 0 THEN -x ELSE x

\* Array.prototype.sort((a, b) => a - b): position i holds the value with
\* fewer than i values below it and at least i values not above it
sortAscending(values) ==
  [ i \in 1..Len(values) |->
      CHOOSE v \in { values[j] : j \in 1..Len(values) } :
        /\ Cardinality({ j \in 1..Len(values) : values[j] < v }) < i
        /\ i <= Cardinality({ j \in 1..Len(values) : values[j] <= v }) ]

\* comparisons of a fraction with a whole number, and of two fractions
fracGT(p, t) == p.num > t * p.den
fracLT(p, t) == p.num < t * p.den
fracLE(p, q) == p.num * q.den <= q.num * p.den

\* Number.prototype.toFixed(0) of a non-negative fraction
toFixed0(p) == (2 * p.num + p.den) \div (2 * p.den)

\* variant: the values above the given one are counted
calculatePercentile_countAbove(value, sortedValues) ==
  IF Len(sortedValues) = 0 THEN [num |-> 50, den |-> 1]
  ELSE [ num |-> 100 * Cardinality({ i \in 1..Len(sortedValues) : sortedValues[i] > value }),
         den |-> Len(sortedValues) ]

calculatePercentile(value, sortedValues) ==
  IF Len(sortedValues) = 0 THEN [num |-> 50, den |-> 1]
  ELSE [ num |-> 100 * Cardinality({ i \in 1..Len(sortedValues) : sortedValues[i] < value }),
         den |-> Len(sortedValues) ]

\* the fields of ParsedCOTData the scorers read
ParsedCOTData(speculatorNet, commercialNetShort) ==
  [ speculatorNet |-> speculatorNet, commercialNetShort |-> commercialNetShort ]

\* a signal_reason: its leading label, what it reports, and the numbers in it
reasonOf(label, finding, figure, contracts) ==
  [ label |-> label, finding |-> finding, figure |-> figure, contracts |-> contracts ]

\* variant: the percentile rule of RED needs a prior week
scoreSpeculatorNet_needsPrior(current, history, priorWeek) ==
  LET currentNet == current.speculatorNet
      historicalNets == sortAscending([ i \in 1..Len(history) |-> history[i].speculatorNet ])
      percentile == calculatePercentile(currentNet, historicalNets)
      hasWow == priorWeek # Null
      wowNum == IF hasWow THEN (currentNet - priorWeek.speculatorNet) * 100 ELSE 0
      wowDen == IF hasWow THEN Abs(priorWeek.speculatorNet) ELSE 1
  IN  IF hasWow /\ fracGT(percentile, 80)
        THEN [ signal |-> "red",
               reason |-> reasonOf("CRITICAL", "extremely crowded", toFixed0(percentile), currentNet) ]
      ELSE IF hasWow /\ wowNum < -20 * wowDen
        THEN [ signal |-> "red",
               reason |-> reasonOf("CRITICAL", "forced liquidation", <<Abs(wowNum), wowDen>>, currentNet) ]
      ELSE IF fracGT(percentile, 60)
        THEN [ signal |-> "yellow",
               reason |-> reasonOf("WATCH", "crowded positioning", toFixed0(percentile), currentNet) ]
      ELSE IF fracLT(percentile, 20)
        THEN [ signal |-> "yellow",
               reason |-> reasonOf("WATCH", "washed out", toFixed0(percentile), currentNet) ]
      ELSE [ signal |-> "green",
             reason |-> reasonOf("BULLISH", "healthy positioning", toFixed0(percentile), currentNet) ]

\* wowChange = (currentNet - prior) / |prior| * 100 is compared with -20 as
\* (currentNet - prior) * 100 < -20 * |prior|; for prior = 0 this is the
\* comparison of -Infinity, NaN or +Infinity with -20
scoreSpeculatorNet(current, history, priorWeek) ==
  LET currentNet == current.speculatorNet
      historicalNets == sortAscending([ i \in 1..Len(history) |-> history[i].speculatorNet ])
      percentile == calculatePercentile(currentNet, historicalNets)
      hasWow == priorWeek # Null
      wowNum == IF hasWow THEN (currentNet - priorWeek.speculatorNet) * 100 ELSE 0
      wowDen == IF hasWow THEN Abs(priorWeek.speculatorNet) ELSE 1
  IN  IF fracGT(percentile, 80)
        THEN [ signal |-> "red",
               reason |-> reasonOf("CRITICAL", "extremely crowded", toFixed0(percentile), currentNet) ]
      ELSE IF hasWow /\ wowNum < -20 * wowDen
        THEN [ signal |-> "red",
               reason |-> reasonOf("CRITICAL", "forced liquidation", <<Abs(wowNum), wowDen>>, currentNet) ]
      ELSE IF fracGT(percentile, 60)
        THEN [ signal |-> "yellow",
               reason |-> reasonOf("WATCH", "crowded positioning", toFixed0(percentile), currentNet) ]
      ELSE IF fracLT(percentile, 20)
        THEN [ signal |-> "yellow",
               reason |-> reasonOf("WATCH", "washed out", toFixed0(percentile), currentNet) ]
      ELSE [ signal |-> "green",
             reason |-> reasonOf("BULLISH", "healthy positioning", toFixed0(percentile), currentNet) ]

CommercialWowLimit == 10000

scoreCommercialShort(current, history, priorWeek) ==
  LET currentShort == current.commercialNetShort
      historicalShorts == sortAscending([ i \in 1..Len(history) |-> history[i].commercialNetShort ])
      percentile == calculatePercentile(currentShort, historicalShorts)
      hasWow == priorWeek # Null
      wowIncrease == IF hasWow THEN currentShort - priorWeek.commercialNetShort ELSE 0
  IN  IF fracGT(percentile, 80)
        THEN [ signal |-> "red",
               reason |-> reasonOf("CRITICAL", "maximum slam ammunition", toFixed0(percentile), currentShort) ]
      ELSE IF hasWow /\ wowIncrease > CommercialWowLimit
        THEN [ signal |-> "red",
               reason |-> reasonOf("CRITICAL", "aggressive short building", wowIncrease, currentShort) ]
      ELSE IF fracGT(percentile, 60)
        THEN [ signal |-> "yellow",
               reason |-> reasonOf("WATCH", "elevated", toFixed0(percentile), currentShort) ]
      ELSE [ signal |-> "green",
             reason |-> reasonOf("BULLISH", "low slam risk", toFixed0(percentile), currentShort) ]

\* lib/api/cme/types: the vault report (thousands of ounces), with
\* registeredRatio as computed there
VaultStocksData(totalRegistered, totalOunces) ==
  [ totalRegistered |-> totalRegistered,
    totalOunces     |-> totalOunces,
    registeredRatio |-> IF totalOunces > 0
                          THEN [num |-> totalRegistered, den |-> totalOunces]
                          ELSE [num |-> 0, den |-> 1] ]

\* ratio * 100
timesHundred(p) == [num |-> 100 * p.num, den |-> p.den]

\* Number.prototype.toFixed(1) of a non-negative fraction, in tenths
toFixed1(p) == (20 * p.num + p.den) \div (2 * p.den)

\* ounces are counted in thousands: 5,000,000 oz and 1,000,000 oz
DrawdownRedOunces == 5000
DrawdownYellowOunces == 1000

\* variant: the ratio band of RED fires only when a prior report exists
scoreVaultInventory_ratioNeedsPrior(current, prior) ==
  LET registered == current.totalRegistered
      ratioPercent == timesHundred(current.registeredRatio)
      weeklyChange == IF prior # Null THEN registered - prior.totalRegistered ELSE 0
  IN  IF prior # Null /\ fracLT(ratioPercent, 25)
        THEN [ signal |-> "red",
               reason |-> reasonOf("CRITICAL", "delivery default risk", toFixed1(ratioPercent), registered) ]
      ELSE IF weeklyChange < -DrawdownRedOunces
        THEN [ signal |-> "red",
               reason |-> reasonOf("CRITICAL", "accelerating drain", Abs(weeklyChange), registered) ]
      ELSE IF fracLT(ratioPercent, 40)
        THEN [ signal |-> "yellow",
               reason |-> reasonOf("WATCH", "below comfort zone", toFixed1(ratioPercent), registered) ]
      ELSE IF weeklyChange < -DrawdownYellowOunces
        THEN [ signal |-> "yellow",
               reason |-> reasonOf("WATCH", "declined this week", Abs(weeklyChange), registered) ]
      ELSE [ signal |-> "green",
             reason |-> reasonOf("BULLISH", "healthy levels", toFixed1(ratioPercent), registered) ]

scoreVaultInventory(current, prior) ==
  LET registered == current.totalRegistered
      ratioPercent == timesHundred(current.registeredRatio)
      weeklyChange == IF prior # Null THEN registered - prior.totalRegistered ELSE 0
  IN  IF fracLT(ratioPercent, 25)
        THEN [ signal |-> "red",
               reason |-> reasonOf("CRITICAL", "delivery default risk", toFixed1(ratioPercent), registered) ]
      ELSE IF weeklyChange < -DrawdownRedOunces
        THEN [ signal |-> "red",
               reason |-> reasonOf("CRITICAL", "accelerating drain", Abs(weeklyChange), registered) ]
      ELSE IF fracLT(ratioPercent, 40)
        THEN [ signal |-> "yellow",
               reason |-> reasonOf("WATCH", "below comfort zone", toFixed1(ratioPercent), registered) ]
      ELSE IF weeklyChange < -DrawdownYellowOunces
        THEN [ signal |-> "yellow",
               reason |-> reasonOf("WATCH", "declined this week", Abs(weeklyChange), registered) ]
      ELSE [ signal |-> "green",
             reason |-> reasonOf("BULLISH", "healthy levels", toFixed1(ratioPercent), registered) ]

\* a Date as its time in hours
Date(hours) == [ getTime |-> hours ]

MarginChange(effectiveDate, changePercent) ==
  [ effectiveDate |-> effectiveDate, changePercent |-> changePercent ]

\* initialMarginPercent is counted in tenths of a percent
MarginData(initialMarginPercent, lastChangeDate, recentChanges) ==
  [ initialMarginPercent |-> initialMarginPercent,
    lastChangeDate |-> lastChangeDate,
    recentChanges |-> recentChanges ]

FourteenDays == 14 * HoursPerDay
ThirtyDays == 30 * HoursPerDay
\* historicalMedian * 1.2, in tenths of a percent
ElevatedMargin == 132
LargeHikePercent == 25

\* the first element of a sequence that satisfies the test, as Array.find
findHike(hikes) ==
  LET large == { i \in 1..Len(hikes) : hikes[i].changePercent >= LargeHikePercent }
  IN  IF large = {} THEN Null
      ELSE hikes[CHOOSE i \in large : \A j \in large : i <= j]

\* the scorer reads the clock: `now` is the state variable
scoreMargins(current, priorSnapshots) ==
  LET fourteenDaysAgo == now - FourteenDays
      thirtyDaysAgo == now - ThirtyDays
      isRecentHike(c) == c.effectiveDate.getTime >= fourteenDaysAgo /\ c.changePercent > 0
      recentHikes == SelectSeq(current.recentChanges, isRecentHike)
      largeHike == findHike(recentHikes)
      lastChangeDate == current.lastChangeDate
      margin == current.initialMarginPercent
  IN  IF Len(recentHikes) >= 2
        THEN [ signal |-> "red",
               reason |-> reasonOf("CRITICAL", "margin hikes in past 14 days", Len(recentHikes), margin) ]
      ELSE IF largeHike # Null
        THEN [ signal |-> "red",
               reason |-> reasonOf("CRITICAL", "major margin hike", largeHike.changePercent, margin) ]
      ELSE IF lastChangeDate # Null /\ lastChangeDate.getTime >= fourteenDaysAgo
        THEN [ signal |-> "yellow",
               reason |-> reasonOf("WATCH", "margin change within past 14 days", margin, margin) ]
      ELSE IF margin > ElevatedMargin
        THEN [ signal |-> "yellow",
               reason |-> reasonOf("WATCH", "above historical median", margin, margin) ]
      ELSE IF lastChangeDate # Null /\ lastChangeDate.getTime < thirtyDaysAgo
        THEN [ signal |-> "green",
               reason |-> reasonOf("BULLISH", "stable for 30+ days", margin, margin) ]
      ELSE [ signal |-> "green",
             reason |-> reasonOf("BULLISH", "no recent changes detected", margin, margin) ]

(***************************************************************************)
(* Week-over-week change of the card and of the briefing context           *)
(***************************************************************************)
SevenDays == 7 * HoursPerDay
ThreeDays == 3 * HoursPerDay
\* days of history the dashboard and the briefing ask for
PageHistoryDays == 14
BriefingHistoryDays == 30
\* the briefing looks for a week-old row only in a history this long
MinContextHistory == 7

\* rows of one indicator in data_date order, fetched within the last `days`
getSnapshotHistory(rows, days, clock) ==
  LET recent(r) == r.fetched_at > clock - days * HoursPerDay
  IN  SelectSeq(rows, recent)

\* Array.find: the first row that satisfies the test
\* page.tsx: data_date within three days of a week ago
findPriorSnapshot(history, clock) ==
  LET weekAgo == clock - SevenDays
      hits == { i \in 1..Len(history) : Abs(history[i].data_date - weekAgo) < ThreeDays }
  IN  IF hits = {} THEN Null
      ELSE history[CHOOSE i \in hits : \A j \in hits : i <= j]

\* generate-briefing: data_date six to eight days ago
findWeekAgo(history, clock) ==
  LET hits == { i \in 1..Len(history) :
                  /\ Abs(clock - history[i].data_date) >= 6 * HoursPerDay
                  /\ Abs(clock - history[i].data_date) <= 8 * HoursPerDay }
  IN  IF hits = {} THEN Null
      ELSE history[CHOOSE i \in hits : \A j \in hits : i <= j]

\* ((current - prior) / |prior|) * 100 as a fraction
percentChange(currentVal, priorVal) ==
  [ num |-> (currentVal - priorVal) * 100, den |-> Abs(priorVal) ]

\* transformToCardData: weekOverWeekChange of the card
cardWeekOverWeekChange(snapshot, update_frequency, priorSnapshot, clock) ==
  IF /\ snapshot # Null
     /\ priorSnapshot # Null
     /\ getDisplayState(snapshot, update_frequency, clock) = "success"
    THEN IF priorSnapshot.computed_value # 0
           THEN percentChange(snapshot.computed_value, priorSnapshot.computed_value)
           ELSE Null
    ELSE Null

\* buildIndicatorContexts: weekOverWeekChange of the indicator context
contextWeekOverWeekChange(snapshot, history, clock) ==
  IF Len(history) >= MinContextHistory
    THEN LET weekAgo == findWeekAgo(history, clock) IN
         IF weekAgo # Null /\ snapshot # Null
           THEN IF weekAgo.computed_value # 0
                  THEN percentChange(snapshot.computed_value, weekAgo.computed_value)
                  ELSE Null
           ELSE Null
    ELSE Null

(***************************************************************************)
(* The pre-slam risk checklist of the dashboard                            *)
(***************************************************************************)
SlamRiskItem(id, active) == [ id |-> id, active |-> active ]

DEFAULT_SLAM_RISK_ITEMS ==
  << SlamRiskItem("cot-short", FALSE), SlamRiskItem("margin-hike", FALSE),
     SlamRiskItem("oi-drop", FALSE), SlamRiskItem("spread-widen", FALSE),
     SlamRiskItem("thin-liquidity", FALSE) >>

checkCotShortBuild(current, prior) ==
  IF current = Null \/ prior = Null THEN SlamRiskItem("cot-short", FALSE)
  ELSE SlamRiskItem("cot-short", current.computed_value > prior.computed_value)

checkMarginHike(current, prior) ==
  IF current = Null THEN SlamRiskItem("margin-hike", FALSE)
  ELSE IF current.signal = "red" THEN SlamRiskItem("margin-hike", TRUE)
  ELSE IF prior # Null
    THEN SlamRiskItem("margin-hike", current.computed_value > prior.computed_value)
  ELSE SlamRiskItem("margin-hike", FALSE)

\* ((curr - prev) / prev) * 100 < -5, by the sign of prev
OiDropPercent == 5
checkOiDrop(current, prior) ==
  IF current = Null \/ prior = Null THEN SlamRiskItem("oi-drop", FALSE)
  ELSE LET curr == current.computed_value
           prev == prior.computed_value
       IN  IF prev = 0 THEN SlamRiskItem("oi-drop", FALSE)
           ELSE SlamRiskItem("oi-drop",
                  IF prev > 0 THEN (curr - prev) * 100 < -OiDropPercent * prev
                  ELSE (curr - prev) * 100 > -OiDropPercent * prev)

\* the spread is counted in cents: 0.5 dollars
SpreadFloorCents == 50
checkSpreadWidens(current, prior) ==
  IF current = Null \/ prior = Null THEN SlamRiskItem("spread-widen", FALSE)
  ELSE SlamRiskItem("spread-widen",
         /\ current.computed_value > prior.computed_value
         /\ current.computed_value > SpreadFloorCents)

\* Date.prototype.getDay: 0 is Sunday; hour 0 of the clock is a Thursday
EpochWeekday == 4
DaysPerWeek == 7
Friday == 5
getDay(clock) == ((clock \div HoursPerDay) + EpochWeekday) % DaysPerWeek

KeyDate(event_date, event_type) == [ event_date |-> event_date, event_type |-> event_type ]

\* type.includes('HOLIDAY') || type.includes('LIQUIDITY') on the tokens
isThinType(event_type) == includes(event_type, "HOLIDAY") \/ includes(event_type, "LIQUIDITY")

checkThinLiquidity(upcomingDates, clock) ==
  LET threeDays == clock + ThreeDays
      holiday == { i \in 1..Len(upcomingDates) :
                     /\ isThinType(upcomingDates[i].event_type)
                     /\ upcomingDates[i].event_date >= clock
                     /\ upcomingDates[i].event_date <= threeDays }
  IN  IF holiday # {} THEN SlamRiskItem("thin-liquidity", TRUE)
      ELSE IF getDay(clock) = Friday THEN SlamRiskItem("thin-liquidity", TRUE)
      ELSE SlamRiskItem("thin-liquidity", FALSE)

computeSlamRisk(data, upcomingDates, clock) ==
  IF data = Null THEN DEFAULT_SLAM_RISK_ITEMS
  ELSE << checkCotShortBuild(data.snapshots[COT_COMMERCIAL], data.priorSnapshots[COT_COMMERCIAL]),
          checkMarginHike(data.snapshots[MARGIN_REQUIREMENTS], data.priorSnapshots[MARGIN_REQUIREMENTS]),
          checkOiDrop(data.snapshots[OPEN_INTEREST], data.priorSnapshots[OPEN_INTEREST]),
          checkSpreadWidens(data.snapshots[BACKWARDATION], data.priorSnapshots[BACKWARDATION]),
          checkThinLiquidity(upcomingDates, clock) >>

activeCount(items) == Cardinality({ i \in 1..Len(items) : items[i].active })

ElevatedCount == 3

\* variant: the margin check must be among the active ones
isElevated_needsMargin(items) == activeCount(items) >= ElevatedCount /\ items[2].active

\* SlamRiskChecklist
isElevated(items) == activeCount(items) >= ElevatedCount

(***************************************************************************)
(* Evaluation of the scorers on enumerated arguments                       *)
(***************************************************************************)
SeqsUpTo(S, n) == UNION { [1..k -> S] : k \in 0..n }

\* a history of ScenarioPoints values, the first `below` of them lo, the rest hi
longHistory(below, lo, hi) == [ i \in 1..ScenarioPoints |-> IF i <= below THEN lo ELSE hi ]

SpeculatorNets == {-10, 0, 7, 8, 10}
CommercialShorts == {0, 5000, 15000, 15001}

\* counts of low values in the long histories: around each percentile
\* threshold of the scorers, and the 85 of the documented scenario
LongBelow == {0, 19, 20, 21, 59, 60, 61, 79, 80, 81, 85, ScenarioPoints}

SpeculatorHistories ==
  SeqsUpTo(SpeculatorNets, MaxHistory) \cup { longHistory(k, 0, 10) : k \in LongBelow }
CommercialHistories ==
  SeqsUpTo(CommercialShorts, MaxHistory) \cup { longHistory(k, 0, 15001) : k \in LongBelow }

\* fetch-cot builds the history rows with every other field 0
speculatorRows(h) == [ i \in 1..Len(h) |-> ParsedCOTData(h[i], 0) ]
commercialRows(h) == [ i \in 1..Len(h) |-> ParsedCOTData(0, h[i]) ]

PercentileArgs ==
  { [ fn |-> "calculatePercentile", value |-> v, other |-> w, sortedValues |-> sortAscending(h) ] :
      v \in SpeculatorNets, w \in SpeculatorNets, h \in SpeculatorHistories }

SpeculatorArgs ==
  { [ fn |-> "scoreSpeculatorNet", current |-> ParsedCOTData(c, 0),
      history |-> speculatorRows(h), priorWeek |-> pw ] :
      c \in SpeculatorNets, h \in SpeculatorHistories,
      pw \in {Null} \cup { ParsedCOTData(v, 0) : v \in SpeculatorNets } }

CommercialArgs ==
  { [ fn |-> "scoreCommercialShort", current |-> ParsedCOTData(0, c),
      history |-> commercialRows(h), priorWeek |-> pw ] :
      c \in CommercialShorts, h \in CommercialHistories,
      pw \in {Null} \cup { ParsedCOTData(0, v) : v \in CommercialShorts } }

RegisteredOunces == {0, 22000, 25000, 30000, 30001, 45000}
TotalOunces == {0, 60000, 100000}

\* fetch-cme-daily passes the prior report as the current one with the
\* stored totalRegistered put in
VaultArgs ==
  { [ fn |-> "scoreVaultInventory", current |-> VaultStocksData(r, t),
      prior |-> IF hasPrior THEN VaultStocksData(pr, t) ELSE Null ] :
      r \in RegisteredOunces, t \in TotalOunces, pr \in RegisteredOunces, hasPrior \in BOOLEAN }

\* the first evaluation is kept in result, the second in again
\* margins in tenths of a percent: the median, and the 15% of the fallback
MarginPercents == {110, 150}
\* dates of margin changes, in hours before the first evaluation
ChangeAges == {10, FourteenDays, ThirtyDays, 1000}
HikePercents == {-5, 10, 36}
MaxChanges == 2

MarginChanges ==
  { MarginChange(Date(StartHour - a), c) : a \in {10, FourteenDays}, c \in HikePercents }

MarginArgs ==
  { [ fn |-> "scoreMargins",
      current |-> MarginData(m, d, rc),
      history |-> <<>> ] :
      m \in MarginPercents,
      d \in {Null} \cup { Date(StartHour - a) : a \in ChangeAges },
      rc \in SeqsUpTo(MarginChanges, MaxChanges) }

\* rows of one indicator: `count` earlier rows `step` days apart, the
\* latest row last; each row is fetched on its data_date
MaxTrendRows == 8
trendRow(value, age, status) ==
  [ computed_value |-> value, data_date |-> StartHour - age,
    fetched_at |-> StartHour - age, signal |-> IF status = "success" THEN "green" ELSE "error",
    fetch_status |-> status ]

trendRows(count, step, priorValue, value, age, status) ==
  [ i \in 1..count + 1 |->
      IF i = count + 1 THEN trendRow(value, age, status)
      ELSE trendRow(priorValue, age + (count + 1 - i) * step * HoursPerDay, "success") ]

lastOf(rows) == rows[Len(rows)]

TrendArgs ==
  { [ fn |-> "weekOverWeekChange", indicatorId |-> id,
      rows |-> trendRows(count, IF id = COT_SPECULATOR THEN 7 ELSE 1, pv, v, age, status) ] :
      id \in {OPEN_INTEREST, COT_SPECULATOR},
      count \in 0..MaxTrendRows, pv \in {0, 100, -200}, v \in {0, 150},
      age \in {0, 2 * HoursPerDay + 2}, status \in {"success", "error"} }

Evaluated(value) ==
  /\ again = NoResult
  /\ IF result = NoResult
       THEN result' = value /\ again' = again
       ELSE result' = result /\ again' = value
  /\ UNCHANGED <<args, store, metal, snapshots, cards, banner, briefing, pass, requests>>

\* calculatePercentile of two values against the same sorted history
EvalPercentile ==
  /\ args.fn = "calculatePercentile"
  /\ Evaluated([ signal |-> "n/a",
                 ofValue |-> calculatePercentile(args.value, args.sortedValues),
                 ofOther |-> calculatePercentile(args.other, args.sortedValues) ])
  /\ UNCHANGED now

EvalSpeculatorNet ==
  /\ args.fn = "scoreSpeculatorNet"
  /\ Evaluated(scoreSpeculatorNet(args.current, args.history, args.priorWeek))
  /\ UNCHANGED now

EvalCommercialShort ==
  /\ args.fn = "scoreCommercialShort"
  /\ Evaluated(scoreCommercialShort(args.current, args.history, args.priorWeek))
  /\ UNCHANGED now

EvalVaultInventory ==
  /\ args.fn = "scoreVaultInventory"
  /\ Evaluated(scoreVaultInventory(args.current, args.prior))
  /\ UNCHANGED now

EvalMargins ==
  /\ args.fn = "scoreMargins"
  /\ Evaluated(scoreMargins(args.current, args.history))
  /\ UNCHANGED now

\* the dashboard's card and the briefing's context for one indicator
EvalWeekOverWeek ==
  /\ args.fn = "weekOverWeekChange"
  /\ LET snapshot == lastOf(args.rows)
         frequency == INDICATOR_METADATA[args.indicatorId]
         pageHistory == getSnapshotHistory(args.rows, PageHistoryDays, now)
         briefingHistory == getSnapshotHistory(args.rows, BriefingHistoryDays, now)
     IN  Evaluated([ signal |-> "n/a", at |-> now,
                     card |-> cardWeekOverWeekChange(snapshot, frequency,
                                                     findPriorSnapshot(pageHistory, now), now),
                     context |-> contextWeekOverWeekChange(snapshot, briefingHistory, now) ])
  /\ UNCHANGED now

\* the wall clock advances between two evaluations
PassTime ==
  /\ now < StartHour + MaxDay * HoursPerDay
  /\ now' = now + HoursPerDay
  /\ UNCHANGED <<args, result, again, store, metal, snapshots, cards, banner, briefing, pass,
               requests>>

InitScore ==
  /\ store = <<>>
  /\ now = StartHour
  /\ metal = "silver"
  /\ snapshots = {}
  /\ cards = NotRendered
  /\ banner = NoPosture
  /\ briefing = NoBriefing
  /\ pass = NoPass
  /\ args \in PercentileArgs \cup SpeculatorArgs \cup CommercialArgs \cup VaultArgs
               \cup MarginArgs \cup TrendArgs
  /\ result = NoResult
  /\ again = NoResult
  /\ requests = NoRequests

ScoreNext ==
  \/ EvalPercentile
  \/ EvalSpeculatorNet
  \/ EvalCommercialShort
  \/ EvalVaultInventory
  \/ EvalMargins
  \/ EvalWeekOverWeek
  \/ PassTime

SpecScore == InitScore /\ [][ScoreNext]_vars

(***************************************************************************)
(* The checklist on enumerated dashboard data                              *)
(***************************************************************************)
SlamIds == {COT_COMMERCIAL, MARGIN_REQUIREMENTS, OPEN_INTEREST, BACKWARDATION}
slamRow(value, signal) == [ computed_value |-> value, signal |-> signal ]

\* the latest row of each indicator of the checklist and the row of a week
\* before: <<current, prior>>, either of them missing
SlamPairs(id) ==
  LET currents == IF id = MARGIN_REQUIREMENTS
                    THEN { slamRow(100, "green"), slamRow(100, "red") }
                    ELSE { slamRow(100, "green") }
      priors == IF id = OPEN_INTEREST
                  THEN { slamRow(v, "green") : v \in {0, 100, 110} }
                  ELSE { slamRow(v, "green") : v \in {90, 110} }
  IN  { <<Null, Null>> } \cup (currents \X ({Null} \cup priors))

SlamData ==
  {Null} \cup
  { [ snapshots |-> [ id \in SlamIds |-> pairs[id][1] ],
      priorSnapshots |-> [ id \in SlamIds |-> pairs[id][2] ] ] :
      pairs \in { f \in [SlamIds -> UNION { SlamPairs(id) : id \in SlamIds }] :
                    \A id \in SlamIds : f[id] \in SlamPairs(id) } }

HOLIDAY_WINDOW == <<"HOLIDAY", "_", "WINDOW">>
COT_RELEASE == <<"COT", "_", "RELEASE">>
NoonHour == 12
\* days from today to the event of the calendar
EventDaysAhead == {0, 2, 3, 4}

\* getUpcomingDates: the active events from today on, dated at midnight
UpcomingDates(clock) ==
  { <<>> } \cup
  { << KeyDate((clock \div HoursPerDay + k) * HoursPerDay, type) >> :
      k \in EventDaysAhead, type \in {HOLIDAY_WINDOW, COT_RELEASE} }

SlamArgs(clock) ==
  { [ fn |-> "computeSlamRisk", data |-> d, upcomingDates |-> u ] :
      d \in SlamData, u \in UpcomingDates(clock) }

\* DashboardPage computes the items and SlamRiskChecklist renders them
EvalSlamRisk ==
  /\ args.fn = "computeSlamRisk"
  /\ LET items == computeSlamRisk(args.data, args.upcomingDates, now)
     IN  Evaluated([ signal |-> "n/a", at |-> now, items |-> items,
                     isElevated |-> isElevated(items) ])
  /\ UNCHANGED now

InitSlam ==
  /\ store = <<>>
  /\ now \in { d * HoursPerDay + NoonHour : d \in 0..DaysPerWeek - 1 }
  /\ metal = "silver"
  /\ snapshots = {}
  /\ cards = NotRendered
  /\ banner = NoPosture
  /\ briefing = NoBriefing
  /\ pass = NoPass
  /\ args \in SlamArgs(now)
  /\ result = NoResult
  /\ again = NoResult
  /\ requests = NoRequests

SlamNext == EvalSlamRisk

SpecSlam == InitSlam /\ [][SlamNext]_vars

(***************************************************************************)
(* The COT routes step by step: every await is a point where another       *)
(* request may run                                                         *)
(***************************************************************************)
MaxRequests == 2
RequestIds == 1..MaxRequests

\* a request before it starts; `asked` are the report dates of its data,
\* `dates` those it still has to process, oldest first
IdleRequest == [ pc |-> "idle", route |-> "none", asked |-> {}, dates |-> {} ]

oldest(dates) == CHOOSE d \in dates : \A e \in dates : d <= e

setRequest(r, pc, route, asked, dates) ==
  requests' = [ requests EXCEPT ![r] = [ pc |-> pc, route |-> route,
                                         asked |-> asked, dates |-> dates ] ]

movedTo(r, pc, dates) ==
  setRequest(r, pc, requests[r].route, requests[r].asked, dates)

cotUnchanged == UNCHANGED <<metal, snapshots, cards, banner, briefing, pass, evalVars>>

\* GET of fetch-cot (one report date, the latest) or of backfill-cot (the
\* report dates of three years): the CFTC fetch; on failure fetch-cot
\* writes both error rows and backfill-cot writes nothing
CotFetch(r) ==
  /\ requests[r].pc = "idle"
  /\ \E route \in {"fetch-cot", "backfill-cot"}, ok \in BOOLEAN :
       IF ~ok
         THEN /\ setRequest(r, "done", route, {}, {})
              /\ IF route = "fetch-cot"
                   THEN /\ store' = insertErrorSnapshot(
                                      insertErrorSnapshot(store, COT_SPECULATOR, metal, now),
                                      COT_COMMERCIAL, metal, now)
                        /\ now' = now + 1
                   ELSE UNCHANGED <<store, now>>
         ELSE /\ \E dates \in (SUBSET ReportDates) \ {{}} :
                   /\ route = "fetch-cot" => Cardinality(dates) = 1
                   /\ setRequest(r, "check", route, dates, dates)
              /\ UNCHANGED <<store, now>>
  /\ cotUnchanged

\* await snapshotExists(COT_SPECULATOR, reportDate): skip the date when a
\* row exists, else go on to the inserts
CotCheck(r) ==
  /\ requests[r].pc = "check"
  /\ LET dates == requests[r].dates IN
       IF dates = {} THEN movedTo(r, "done", {})
       ELSE IF snapshotExists(store, COT_SPECULATOR, oldest(dates), metal)
         THEN movedTo(r, "check", dates \ {oldest(dates)})
       ELSE movedTo(r, "insert4", dates)
  /\ UNCHANGED <<store, now>>
  /\ cotUnchanged

\* await insertSnapshot(speculatorSnapshot): the row is written, or the
\* insert throws and the request ends with the exception
CotInsertSpeculator(r) ==
  /\ requests[r].pc = "insert4"
  /\ \E throws \in BOOLEAN :
     \E signal \in scoresIf(~throws) :
       IF throws
         THEN movedTo(r, "failed", requests[r].dates) /\ UNCHANGED <<store, now>>
         ELSE /\ store' = insertSnapshot(store,
                            successSnapshot(COT_SPECULATOR, metal, now,
                                            oldest(requests[r].dates), RawPlain, signal))
              /\ now' = now + 1
              /\ movedTo(r, "insert5", requests[r].dates)
  /\ cotUnchanged

\* await insertSnapshot(commercialSnapshot), then the next report date
CotInsertCommercial(r) ==
  /\ requests[r].pc = "insert5"
  /\ \E throws \in BOOLEAN :
     \E signal \in scoresIf(~throws) :
       IF throws
         THEN movedTo(r, "failed", requests[r].dates) /\ UNCHANGED <<store, now>>
         ELSE /\ store' = insertSnapshot(store,
                            successSnapshot(COT_COMMERCIAL, metal, now,
                                            oldest(requests[r].dates), RawPlain, signal))
              /\ now' = now + 1
              /\ movedTo(r, "check", requests[r].dates \ {oldest(requests[r].dates)})
  /\ cotUnchanged

InitCot ==
  /\ store = <<>>
  /\ now = StartHour
  /\ metal = DefaultMetal
  /\ snapshots = {}
  /\ cards = NotRendered
  /\ banner = NoPosture
  /\ briefing = NoBriefing
  /\ pass = NoPass
  /\ args = NoArgs /\ result = NoResult /\ again = NoResult
  /\ requests = [ r \in RequestIds |-> IdleRequest ]

CotNext ==
  \E r \in RequestIds :
    \/ CotFetch(r)
    \/ CotCheck(r)
    \/ CotInsertSpeculator(r)
    \/ CotInsertCommercial(r)

SpecCot == InitCot /\ [][CotNext]_vars

(***************************************************************************)
(* Properties of the scorers                                               *)
(***************************************************************************)
Scored(fn) == args.fn = fn /\ result # NoResult

\* values of the history strictly below the current one, as a share of 100
shareBelow(value, values) ==
  [ num |-> 100 * Cardinality({ i \in 1..Len(values) : values[i] < value }), den |-> Len(values) ]

speculatorShare ==
  shareBelow(args.current.speculatorNet,
             [ i \in 1..Len(args.history) |-> args.history[i].speculatorNet ])

\* C12: the speculator-positioning scorer returns RED whenever the current
\* value lies above the 80th percentile of its history, whether or not
\* prior-week data exists.
C12_AboveEightiethIsRed ==
  (Scored("scoreSpeculatorNet") /\ Len(args.history) > 0 /\ fracGT(speculatorShare, 80))
    => result.signal = "red"

\* the 85th percentile of a 100-point history, no prior week: RED, and the
\* reason carries 85 and the contract count
C12_Witness ==
  /\ Scored("scoreSpeculatorNet")
  /\ Len(args.history) = ScenarioPoints /\ args.priorWeek = Null
  /\ speculatorShare.num = 85 * speculatorShare.den
  /\ result.signal = "red"
  /\ result.reason.figure = 85 /\ result.reason.contracts = args.current.speculatorNet

\* C13: when no prior period is available a percentile-based scorer returns
\* a YELLOW "insufficient history" signal.
C13_NoPriorIsInsufficientHistory ==
  (result # NoResult /\ args.fn \in {"scoreSpeculatorNet", "scoreCommercialShort"}
     /\ args.priorWeek = Null)
    => (result.signal = "yellow" /\ result.reason.finding = "insufficient history")

\* C15: for a fixed history, percentileRank is non-decreasing in the value.
C15_PercentileMonotonic ==
  (Scored("calculatePercentile") /\ args.value <= args.other)
    => fracLE(result.ofValue, result.ofOther)

\* two values with different ranks in a history that holds both
C15_Witness ==
  /\ Scored("calculatePercentile")
  /\ args.value < args.other
  /\ Len(args.sortedValues) = MaxHistory
  /\ ~fracLE(result.ofOther, result.ofValue)

C16_ScorersAreIdempotent ==
  again # NoResult => again = result

\* the change the claim describes, from the prior row a reader found
expectedChange(snapshot, prior) ==
  IF prior # Null /\ prior.computed_value # 0
    THEN percentChange(snapshot.computed_value, prior.computed_value)
    ELSE Null

\* C17: the week-over-week change is (current - prior) / |prior| * 100 when a
\* prior observation from about seven days earlier exists and is not 0, and
\* null when the prior value is 0 or there is no such prior observation
C17_WeekOverWeekChange ==
  Scored("weekOverWeekChange") =>
    LET snapshot == lastOf(args.rows)
        pagePrior == findPriorSnapshot(
                       getSnapshotHistory(args.rows, PageHistoryDays, result.at), result.at)
        briefingPrior == findWeekAgo(
                       getSnapshotHistory(args.rows, BriefingHistoryDays, result.at), result.at)
    IN  /\ result.card = expectedChange(snapshot, pagePrior)
        /\ result.context = expectedChange(snapshot, briefingPrior)

(***************************************************************************)
(* Properties of the pre-slam risk checklist                               *)
(***************************************************************************)
\* C18: the checklist is elevated exactly when at least 3 of its 5 checks
\* are active, whichever checks they are
C18_ElevatedIffThreeOfFive ==
  Scored("computeSlamRisk") =>
    /\ Len(result.items) = 5
    /\ result.isElevated <=> activeCount(result.items) >= 3

\* exactly three checks are active, the margin check not among them
C18_Witness ==
  /\ Scored("computeSlamRisk")
  /\ activeCount(result.items) = 3
  /\ ~result.items[2].active
  /\ result.isElevated

nearWeekend(clock) ==
  \E k \in -3..3 : getDay(clock + k * HoursPerDay) \in {0, 6}

\* a flagged event lies within three days of the clock, before or after
nearThinWindow(upcomingDates, clock) ==
  \E i \in 1..Len(upcomingDates) :
    /\ isThinType(upcomingDates[i].event_type)
    /\ Abs(upcomingDates[i].event_date - clock) <= ThreeDays

\* C20: the thin-liquidity check is active whenever the date is within three
\* days of a flagged low-liquidity window or of a weekend
C20_ThinLiquidityWindow ==
  (Scored("computeSlamRisk") /\ args.data # Null) =>
    ((nearThinWindow(args.upcomingDates, result.at) \/ nearWeekend(result.at))
       => result.items[5].active)

(***************************************************************************)
(* Properties of the query layer and of the stored rows                    *)
(***************************************************************************)
\* the indicator has two rows with the same data_date
hasDuplicateDate(st, indicatorId, m) ==
  \E r \in rowsOf(st, indicatorId, m), q \in rowsOf(st, indicatorId, m) :
    r.id # q.id /\ r.data_date = q.data_date

\* the row of the indicator written last
lastWritten(st, indicatorId, m) ==
  CHOOSE r \in rowsOf(st, indicatorId, m) :
    \A q \in rowsOf(st, indicatorId, m) : q.id <= r.id

C22_FallbackIsNotGenuine ==
  Rendered =>
    \A id \in IndicatorIds :
      LET s == findSnapshot(snapshots, id)
      IN  (s # Null /\ s.raw_value = RawFallback) =>
            /\ cards[id].displayState \in {"error", "stale"}
            /\ id \notin availableCards(cards)

\* C23: every failed derived computation appends an error observation for
\* its indicator, which is then that indicator's latest observation
C23_FailureLeavesErrorRow ==
  pass.route = "compute-derived" =>
    \A id \in pass.failed :
      /\ getLatestSnapshot(store, id, metal) # {}
      /\ \A r \in getLatestSnapshot(store, id, metal) : r.fetch_status # "success"

(***************************************************************************)
(* Further properties of posture synthesis                                 *)
(***************************************************************************)
\* C24: with at least 8 indicators available and margin (#6) or FND ratio
\* (#11) RED, the posture is CAUTION or SELL, never BUY or NEUTRAL (stated
\* for the banner and for the briefing posture, each over its own tallies)
C24_OverrideAtLeastCaution ==
  /\ (Rendered /\ bannerAvailable >= MinAvailable /\ bannerOverrideRed)
       => banner \in {"CAUTION", "SELL"}
  /\ (Briefed /\ briefingAvailable >= MinAvailable /\ briefingOverrideRed)
       => briefing.posture \in {"CAUTION", "SELL"}

(***************************************************************************)
(* Properties of the COT routes                                            *)
(***************************************************************************)
CotIds == {COT_SPECULATOR, COT_COMMERCIAL}

\* C25: the store never holds two success observations of a COT indicator
\* with the same metal and report date, however the runs of fetch-cot and
\* backfill-cot follow or overlap each other
C25_OneSuccessRowPerReport ==
  \A i \in 1..Len(store), j \in 1..Len(store) :
    ( /\ i < j
      /\ store[i].indicator_id \in CotIds
      /\ store[i].fetch_status = "success" /\ store[j].fetch_status = "success"
      /\ store[i].indicator_id = store[j].indicator_id
      /\ store[i].metal = store[j].metal )
    => store[i].data_date # store[j].data_date

\* C27: once a run has gone through a report date and no request is in
\* flight, the commercial (#5) observation exists for every report date of
\* that run for which the speculator (#4) observation exists
C27_CommercialIsCaughtUp ==
  \A r \in RequestIds :
    ( /\ requests # NoRequests
      /\ requests[r].pc = "done"
      /\ \A q \in RequestIds : requests[q].pc \in {"idle", "done", "failed"} )
    => \A d \in requests[r].asked :
         snapshotExists(store, COT_SPECULATOR, d, metal)
           => snapshotExists(store, COT_COMMERCIAL, d, metal)

(***************************************************************************)
(* Agreement of the two posture synthesizers                               *)
(***************************************************************************)
\* C26: for every set of latest observations the posture of the dashboard
\* banner and the posture computed for the daily briefing are the same
C26_BannerAndBriefingAgree ==
  (Rendered /\ Briefed) => banner = briefing.posture

(***************************************************************************)
(* Well-formedness of the stored rows                                      *)
(***************************************************************************)
\* C28: every stored observation whose fetch_status is success carries a
\* signal of green, yellow or red, never error, manual edits included
C28_SuccessCarriesScoreSignal ==
  \A i \in 1..Len(store) :
    store[i].fetch_status = "success" => store[i].signal \in ScoreSignals

(***************************************************************************)
(* The comparison baseline of the CME daily pass                           *)
(***************************************************************************)
\* C29: every prior observation the CME daily pass hands to the scorers of
\* open interest, vault inventory and roll patterns as baseline is a
\* successfully fetched observation, never a stored error observation
C29_BaselineIsSuccess ==
  pass.route = "fetch-cme-daily" =>
    \A r \in pass.prior : r.fetch_status = "success"

(***************************************************************************)
(* Division by a prior of zero                                             *)
(***************************************************************************)
\* C30: when the prior-week speculator net is 0 the week-over-week rule
\* does not fire: the scorer returns what its remaining rules return, that
\* is its verdict without a prior week
C30_ZeroPriorFallsThrough ==
  ( /\ Scored("scoreSpeculatorNet")
    /\ args.priorWeek # Null
    /\ args.priorWeek.speculatorNet = 0 )
  => result = scoreSpeculatorNet(args.current, args.history, Null)

====
